---- MODULE Spec2Model ----
(***************************************************************************)
(* The HTTP probe of probe-srv (src/probes/http.js): one probe chain, its  *)
(* legs, the socket and response lifecycle events of each leg, the         *)
(* ProbeState the legs share, the promise the chain settles, and the       *)
(* validators and the metric assembler run on the terminal leg.            *)
(*                                                                         *)
(* JavaScript values are tagged records ([t |-> "undefined"],              *)
(* [t |-> "string", s |-> <<chars>>], [t |-> "number", n |-> 2], ...);     *)
(* a string is the tuple of its characters, so that Number(), the regular  *)
(* expressions and the boolean parser are computed on the characters.      *)
(* A numeric field that JavaScript leaves undefined holds Undefined.       *)
(***************************************************************************)
EXTENDS Integers, Sequences, FiniteSets, TLC

\* ------------------------------------------------------------------ bounds
\* Legs of one chain (the target's redirect chain has at most MaxLegs - 1 hops).
MaxLegs == 2
\* Last value of the millisecond clock.
MaxTime == 3
\* 'readable' events delivered on one response.
MaxReadable == 2
\* Characters of one response body.
MaxBody == 2
\* Redirects already followed by a chain whose terminal leg is validated.
MaxRedirects == 2
\* Redirects a target that always redirects is followed through.
MaxHops == 3

\* ------------------------------------------------------ JavaScript values
\* The value of an accumulator or a timestamp that was never assigned.
Undefined == -1

JsUndefined == [t |-> "undefined"]
JsNull == [t |-> "null"]
JsString(s) == [t |-> "string", s |-> s]
JsNumber(n) == [t |-> "number", n |-> n]
JsBoolean(b) == [t |-> "boolean", b |-> b]
JsArray(a) == [t |-> "array", a |-> a]
JsNaN == [t |-> "NaN"]

\* A timestamp or accumulator as a JavaScript value.
JsOfField(v) == IF v = Undefined THEN JsUndefined ELSE JsNumber(v)

Digits == <<"0", "1", "2", "3", "4", "5", "6", "7", "8", "9">>

IsDigit(c) == \E i \in 1..10 : Digits[i] = c

DigitValue(c) == (CHOOSE i \in 1..10 : Digits[i] = c) - 1

\* /i of the regular expressions: the letters the parameters are written with.
ToLower(c) ==
  CASE c = "X" -> "x"
    [] c = "Y" -> "y"
    [] c = "N" -> "n"
    [] c = "T" -> "t"
    [] c = "F" -> "f"
    [] c = "E" -> "e"
    [] c = "S" -> "s"
    [] c = "O" -> "o"
    [] c = "R" -> "r"
    [] c = "U" -> "u"
    [] c = "A" -> "a"
    [] c = "L" -> "l"
    [] OTHER -> c

LowerCase(s) == [i \in 1..Len(s) |-> ToLower(s[i])]

RECURSIVE DecimalValue(_)
DecimalValue(s) ==
  IF s = <<>> THEN 0
  ELSE 10 * DecimalValue(SubSeq(s, 1, Len(s) - 1)) + DigitValue(s[Len(s)])

\* Number(string): the empty string is 0, a run of decimal digits is its value,
\* any other string over digits and letters is NaN.
StringToNumber(s) ==
  IF \A i \in 1..Len(s) : IsDigit(s[i]) THEN JsNumber(DecimalValue(s)) ELSE JsNaN

\* Number(value) of http.js lines 168 and 275.
Number(v) ==
  CASE v.t = "number" -> v
    [] v.t = "string" -> StringToNumber(v.s)
    [] v.t = "boolean" -> JsNumber(IF v.b THEN 1 ELSE 0)
    [] v.t = "null" -> JsNumber(0)
    [] OTHER -> JsNaN

\* JavaScript truthiness of a value (||, &&, ! and if).
Truthy(v) ==
  CASE v.t = "undefined" -> FALSE
    [] v.t = "null" -> FALSE
    [] v.t = "NaN" -> FALSE
    [] v.t = "boolean" -> v.b
    [] v.t = "number" -> v.n # 0
    [] v.t = "string" -> v.s # <<>>
    [] OTHER -> TRUE

\* ------------------------------------------------------------------ utils
\* a || b on two numeric fields.
OrElse(a, b) == IF a = Undefined \/ a = 0 THEN b ELSE a

\* increase(counters, key, by): counters[key] = (counters[key] || 0) + by.
increase(counters, key, by) ==
  [counters EXCEPT ![key] = OrElse(@, 0) + by]

\* toArray(value)
toArray(v) ==
  CASE v.t = "undefined" -> <<>>
    [] v.t = "array" -> v.a
    [] OTHER -> <<v>>

TrueStrings ==
  {<<"1">>, <<"y">>, <<"y", "e", "s">>, <<"t">>, <<"t", "r", "u", "e">>}

FalseStrings ==
  {<<"0">>, <<"n">>, <<"n", "o">>, <<"f">>, <<"f", "a", "l", "s", "e">>}

\* parseBooleanQueryParam(value, defaultValue): a tri-state parser; an absent
\* value is the default, a boolean is itself, a true-like or false-like string is
\* its boolean, any other value is the default.
parseBooleanQueryParam(v, defaultValue) ==
  CASE v.t = "undefined" -> defaultValue
    [] v.t = "boolean" -> v
    [] v.t = "string" /\ LowerCase(v.s) \in TrueStrings -> JsBoolean(TRUE)
    [] v.t = "string" /\ LowerCase(v.s) \in FalseStrings -> JsBoolean(FALSE)
    [] OTHER -> defaultValue

\* buildMetric(name, unit, value, description, tags)
buildMetric(name, unit, value, tags) ==
  [name |-> name, unit |-> unit, value |-> value, tags |-> tags]

NoTags == <<>>

\* ------------------------------------------------ strings, URLs, patterns
Chars_yes == <<"y", "e", "s">>
Chars_2xx == <<"2", "x", "x">>
Chars_3xx == <<"3", "x", "x">>

\* A number that is a quotient (value / 1000, parseFloat("1.1")).
JsQuotient(n, d) == [t |-> "number", n |-> n, d |-> d]

\* Index of the first occurrence of character c in s at or after i, else 0.
RECURSIVE IndexOf(_, _, _)
IndexOf(s, c, i) ==
  IF i > Len(s) THEN 0 ELSE IF s[i] = c THEN i ELSE IndexOf(s, c, i + 1)

\* Length of the run of decimal digits of s that starts at i.
RECURSIVE DigitRun(_, _)
DigitRun(s, i) ==
  IF i > Len(s) \/ ~IsDigit(s[i]) THEN 0 ELSE 1 + DigitRun(s, i + 1)

RECURSIVE PowerOfTen(_)
PowerOfTen(k) == IF k = 0 THEN 1 ELSE 10 * PowerOfTen(k - 1)

\* parseInt(string, 10): the leading run of digits, NaN when there is none.
parseInt(s) ==
  LET k == DigitRun(s, 1)
  IN IF k = 0 THEN JsNaN ELSE JsNumber(DecimalValue(SubSeq(s, 1, k)))

\* parseFloat(string): digits, optionally a point and more digits.
parseFloat(s) ==
  LET k == DigitRun(s, 1)
      f == IF k < Len(s) /\ s[k + 1] = "." THEN DigitRun(s, k + 2) ELSE 0
  IN IF k = 0 THEN JsNaN
     ELSE IF f = 0 THEN JsNumber(DecimalValue(SubSeq(s, 1, k)))
     ELSE JsQuotient(DecimalValue(SubSeq(s, 1, k) \o SubSeq(s, k + 2, k + 1 + f)),
                     PowerOfTen(f))

\* url.parse(string) of an absolute URL "scheme://host/path": the scheme with
\* its colon and the host in lower case, the path from the first slash after the
\* host ("/" when there is none).
urlParse(s) ==
  LET colon == IndexOf(s, ":", 1)
      hostStart == colon + 3
      slash == IndexOf(s, "/", hostStart)
      hostEnd == IF slash = 0 THEN Len(s) ELSE slash - 1
  IN [protocol |-> LowerCase(SubSeq(s, 1, colon)),
      host |-> LowerCase(SubSeq(s, hostStart, hostEnd)),
      pathname |-> IF slash = 0 THEN <<"/">> ELSE SubSeq(s, slash, Len(s))]

\* url.format(urlObject)
urlFormat(u) == u.protocol \o <<"/", "/">> \o u.host \o u.pathname

\* target.match(/^https:/i)
IsHttpsTarget(s) ==
  Len(s) >= 6 /\ LowerCase(SubSeq(s, 1, 6)) = <<"h", "t", "t", "p", "s", ":">>

\* body.match(new RegExp(pattern)) for a pattern of literal characters with an
\* optional leading ^ and trailing $: the matched text, or <<>> with found FALSE.
RegExpMatch(body, pattern) ==
  LET atStart == pattern # <<>> /\ Head(pattern) = "^"
      p1 == IF atStart THEN Tail(pattern) ELSE pattern
      atEnd == p1 # <<>> /\ p1[Len(p1)] = "$"
      lit == IF atEnd THEN SubSeq(p1, 1, Len(p1) - 1) ELSE p1
      starts == {i \in 1..(Len(body) - Len(lit) + 1) :
                   /\ SubSeq(body, i, i + Len(lit) - 1) = lit
                   /\ atStart => i = 1
                   /\ atEnd => i + Len(lit) - 1 = Len(body)}
  IN [found |-> starts # {}, text |-> lit]

\* Nesting depth of the groups of a pattern after its last character, or -1
\* once a group is closed that was never opened.
RECURSIVE GroupDepth(_, _)
GroupDepth(pattern, depth) ==
  IF depth < 0 \/ pattern = <<>> THEN depth
  ELSE GroupDepth(Tail(pattern),
                  CASE Head(pattern) = "(" -> depth + 1
                    [] Head(pattern) = ")" -> depth - 1
                    [] OTHER -> depth)

\* new RegExp(pattern) throws a SyntaxError: a group of the pattern is not
\* closed, or closed without being opened.
RegExpThrows(pattern) == GroupDepth(pattern, 0) # 0

\* url.parse(value) throws a TypeError: the value is not a string.
urlParseThrows(v) == v.t # "string"

\* ------------------------------------------------------------- validators
Failure(cause, actual, expected) ==
  [cause |-> cause, actual |-> actual, expected |-> expected]

\* lodash last(array)
last(a) == IF a = <<>> THEN JsUndefined ELSE a[Len(a)]

\* lodash compact(array): the truthy elements.
RECURSIVE compact(_)
compact(a) ==
  IF a = <<>> THEN <<>>
  ELSE IF Truthy(Head(a)) THEN <<Head(a)>> \o compact(Tail(a))
  ELSE compact(Tail(a))

expectedRedirectsOfCountOnly(query) == query.expectHttpRedirects

\* The expected redirects of validateHttpRedirects (lines 161-166).
expectedRedirectsOf(query) ==
  IF query.expectHttpRedirects.t # "undefined" THEN query.expectHttpRedirects
  ELSE IF Truthy(query.expectHttpRedirectTo) THEN JsString(Chars_yes)
  ELSE JsUndefined

\* state.redirects !== expectedRedirectCount (line 169): strict inequality of
\* the counter, undefined while no redirect was followed, and a number.
redirectCountDiffers(actual, expectedCount) ==
  JsOfField(actual) # expectedCount

\* validateHttpRedirects(ctx, state, failures): the failures it pushes.
validateHttpRedirects(query, st) ==
  LET expectedRedirects == expectedRedirectsOf(query)
      expectedRedirectCount == Number(expectedRedirects)
      shouldRedirect == parseBooleanQueryParam(expectedRedirects, JsNull)
  IN IF expectedRedirectCount.t # "NaN"
        /\ redirectCountDiffers(st.redirects, expectedRedirectCount)
     THEN <<Failure("invalidHttpRedirectCount", JsOfField(st.redirects),
                    expectedRedirectCount)>>
     ELSE IF shouldRedirect = JsBoolean(TRUE) /\ ~Truthy(JsOfField(st.redirects))
     THEN <<Failure("missingHttpRedirect", JsUndefined, JsUndefined)>>
     ELSE IF shouldRedirect = JsBoolean(FALSE) /\ Truthy(JsOfField(st.redirects))
     THEN <<Failure("unexpectedHttpRedirect", JsOfField(st.redirects), JsNumber(0))>>
     ELSE <<>>

validateHttpRedirectTargetOfFirstRequest(query, st) ==
  IF query.expectHttpRedirectTo.t = "undefined" THEN <<>>
  ELSE LET expectedRedirect == urlParse(query.expectHttpRedirectTo.s)
           firstRequest == st.requests[1]
       IN IF \/ expectedRedirect.protocol # firstRequest.protocol
             \/ expectedRedirect.host # firstRequest.host
             \/ expectedRedirect.pathname # firstRequest.pathname
          THEN <<Failure("invalidHttpRedirectLocation",
                         JsString(urlFormat(firstRequest)),
                         JsString(urlFormat(expectedRedirect)))>>
          ELSE <<>>

\* validateHttpRedirectTarget(ctx, state, failures)
validateHttpRedirectTarget(query, st) ==
  IF query.expectHttpRedirectTo.t = "undefined" THEN <<>>
  ELSE LET expectedRedirect == urlParse(query.expectHttpRedirectTo.s)
           lastRequest == st.requests[Len(st.requests)]
       IN IF \/ expectedRedirect.protocol # lastRequest.protocol
             \/ expectedRedirect.host # lastRequest.host
             \/ expectedRedirect.pathname # lastRequest.pathname
          THEN <<Failure("invalidHttpRedirectLocation",
                         JsString(urlFormat(lastRequest)),
                         JsString(urlFormat(expectedRedirect)))>>
          ELSE <<>>

\* The loop of lines 216-224 left at its first failure.
bodyMismatchesFirstOnly(body, patterns) ==
  LET unmet == {i \in 1..Len(patterns) : ~RegExpMatch(body, patterns[i].s).found}
  IN IF unmet = {} THEN <<>>
     ELSE <<Failure("httpResponseBodyMismatch", JsUndefined,
                    patterns[CHOOSE i \in unmet : \A j \in unmet : i <= j])>>

\* Lines 216-224.
RECURSIVE bodyMismatches(_, _)
bodyMismatches(body, patterns) ==
  IF patterns = <<>> THEN <<>>
  ELSE (IF ~RegExpMatch(body, Head(patterns).s).found
        THEN <<Failure("httpResponseBodyMismatch", JsUndefined, Head(patterns))>>
        ELSE <<>>) \o bodyMismatches(body, Tail(patterns))

\* Lines 226-236.
RECURSIVE bodyUnexpectedMatches(_, _)
bodyUnexpectedMatches(body, patterns) ==
  IF patterns = <<>> THEN <<>>
  ELSE (LET match == RegExpMatch(body, Head(patterns).s)
        IN IF match.found
           THEN <<Failure("unexpectedHttpResponseBodyMatch", JsString(match.text),
                          Head(patterns))>>
           ELSE <<>>) \o bodyUnexpectedMatches(body, Tail(patterns))

\* validateHttpResponseBody(ctx, res, failures)
validateHttpResponseBody(query, res) ==
  bodyMismatches(res.body, toArray(query.expectHttpResponseBodyMatch))
    \o bodyUnexpectedMatches(res.body, toArray(query.expectHttpResponseBodyMismatch))

\* The expectation compared against the scheme of the last request alone.
validateHttpSecurityOfLastRequest(query, st) ==
  LET expectSecure ==
        parseBooleanQueryParam(last(toArray(query.expectHttpSecure)), JsNull)
      secure == st.requests[Len(st.requests)].protocol = <<"h", "t", "t", "p", "s", ":">>
  IN IF expectSecure = JsBoolean(TRUE) /\ ~secure
     THEN <<Failure("insecureHttp", JsUndefined, JsUndefined)>>
     ELSE IF expectSecure = JsBoolean(FALSE) /\ secure
     THEN <<Failure("unexpectedlySecureHttp", JsUndefined, JsUndefined)>>
     ELSE <<>>

\* validateHttpSecurity(ctx, state, failures)
validateHttpSecurity(query, st) ==
  LET expectSecure ==
        parseBooleanQueryParam(last(toArray(query.expectHttpSecure)), JsNull)
  IN IF expectSecure = JsBoolean(TRUE) /\ st.tlsHandshake = Undefined
     THEN <<Failure("insecureHttp", JsUndefined, JsUndefined)>>
     ELSE IF expectSecure = JsBoolean(FALSE) /\ st.tlsHandshake # Undefined
     THEN <<Failure("unexpectedlySecureHttp", JsUndefined, JsUndefined)>>
     ELSE <<>>

\* The array validateHttpStatusCode iterates before the defaults are pushed
\* (line 257): the parameter's own array, or a fresh one.
statusCodeArray(query) ==
  IF query.expectHttpStatusCode.t = "array" THEN query.expectHttpStatusCode.a
  ELSE compact(<<query.expectHttpStatusCode>>)

\* The expected codes after line 258-260.
expectedStatusCodes(query) ==
  IF Len(statusCodeArray(query)) = 0
  THEN <<JsString(Chars_2xx), JsString(Chars_3xx)>>
  ELSE statusCodeArray(query)

\* The parameter bag after validateHttpStatusCode: expected.push('2xx', '3xx')
\* pushes onto the caller's array when the parameter is an empty array.
queryAfterStatusCode(query) ==
  IF query.expectHttpStatusCode.t = "array" /\ Len(query.expectHttpStatusCode.a) = 0
  THEN [query EXCEPT !.expectHttpStatusCode = JsArray(expectedStatusCodes(query))]
  ELSE query

\* The digits of /^([1-5])xx$/i.
rangeStartDigits(c) == c \in {"1", "2", "3", "4", "5"}

rangeMatchesOffByOne(code, actual) ==
  /\ Len(code) = 3
  /\ rangeStartDigits(code[1])
  /\ ToLower(code[2]) = "x"
  /\ ToLower(code[3]) = "x"
  /\ LET rangeStart == DigitValue(code[1]) * 100
     IN actual >= rangeStart /\ actual <= rangeStart + 100

\* code.match(/^([1-5])xx$/i) and the range test of lines 267-273.
rangeMatches(code, actual) ==
  /\ Len(code) = 3
  /\ rangeStartDigits(code[1])
  /\ ToLower(code[2]) = "x"
  /\ ToLower(code[3]) = "x"
  /\ LET rangeStart == DigitValue(code[1]) * 100
     IN actual >= rangeStart /\ actual <= rangeStart + 99

\* Lines 275-278.
literalMatches(code, actual) ==
  LET asNumber == StringToNumber(code)
  IN asNumber.t # "NaN" /\ asNumber.n = actual

\* The loop of lines 262-279: TRUE when it returns early.
RECURSIVE statusCodeExpected(_, _)
statusCodeExpected(expected, actual) ==
  IF expected = <<>> THEN FALSE
  ELSE LET code == Head(expected)
       IN IF code.t # "string" THEN statusCodeExpected(Tail(expected), actual)
          ELSE IF rangeMatches(code.s, actual) THEN TRUE
          ELSE IF literalMatches(code.s, actual) THEN TRUE
          ELSE statusCodeExpected(Tail(expected), actual)

\* validateHttpStatusCode(ctx, res, failures)
validateHttpStatusCode(query, res) ==
  IF statusCodeExpected(expectedStatusCodes(query), res.statusCode) THEN <<>>
  ELSE <<Failure("invalidHttpStatusCode", JsNumber(res.statusCode),
                 JsArray(toArray(queryAfterStatusCode(query).expectHttpStatusCode)))>>

\* validateHttpVersion(ctx, res, failures)
validateHttpVersion(query, res) ==
  LET expected == query.expectHttpVersion
  IN IF Truthy(expected) /\ res.httpVersion # expected.s
     THEN <<Failure("invalidHttpVersion", JsString(res.httpVersion),
                    parseFloat(expected.s))>>
     ELSE <<>>

\* ------------------------------------------------------- metric assembler
NoResponse == [none |-> TRUE]

HasResponse(res) == res # NoResponse

\* An exception leaves the validators of lines 93-98: url.parse of the expected
\* redirect target (line 196) or new RegExp of a body pattern (lines 217, 227).
validateThrows(query) ==
  \/ query.expectHttpRedirectTo.t # "undefined"
       /\ urlParseThrows(query.expectHttpRedirectTo)
  \/ \E i \in 1..Len(toArray(query.expectHttpResponseBodyMatch)) :
       RegExpThrows(toArray(query.expectHttpResponseBodyMatch)[i].s)
  \/ \E i \in 1..Len(toArray(query.expectHttpResponseBodyMismatch)) :
       RegExpThrows(toArray(query.expectHttpResponseBodyMismatch)[i].s)

\* Lines 92-99: the validators in the order they run.
validate(query, res, st) ==
  validateHttpRedirects(query, st)
    \o validateHttpRedirectTarget(query, st)
    \o validateHttpResponseBody(query, res)
    \o validateHttpSecurity(query, st)
    \o validateHttpStatusCode(query, res)
    \o validateHttpVersion(query, res)

\* The parameter bag after the validators ran.
queryAfterValidate(query, res) ==
  IF HasResponse(res) THEN queryAfterStatusCode(query) ELSE query

Phases == <<"contentTransfer", "dnsLookup", "firstByte", "tcpConnection", "tlsHandshake">>

\* One httpDuration metric per phase, 0 for a phase the state does not hold.
durationMetricsAllPhases(st, phases) ==
  [i \in 1..Len(phases) |->
     buildMetric("httpDuration", "seconds",
                 JsQuotient(OrElse(st[phases[i]], 0), 1000), <<phases[i]>>)]

\* Lines 117-125: one httpDuration metric per phase the state holds.
RECURSIVE durationMetrics(_, _)
durationMetrics(st, phases) ==
  IF phases = <<>> THEN <<>>
  ELSE (IF st[Head(phases)] = Undefined THEN <<>>
        ELSE <<buildMetric("httpDuration", "seconds",
                           JsQuotient(st[Head(phases)], 1000),
                           <<Head(phases)>>)>>)
       \o durationMetrics(st, Tail(phases))

successIgnoringResponse(res, failures) == Len(failures) = 0

\* Line 101: success = !!res && !failures.length
successOf(res, failures) == HasResponse(res) /\ Len(failures) = 0

\* getHttpMetrics(ctx, req, res, state); certificate is what
\* getHttpCertificateExpiry(req) returns.
getHttpMetrics(query, certificate, res, st) ==
  LET failures == IF HasResponse(res) THEN validate(query, res, st) ELSE <<>>
      contentLength ==
        IF HasResponse(res) /\ Truthy(res.contentLength)
        THEN parseInt(res.contentLength.s) ELSE JsNull
  IN [failures |-> failures,
      metrics |->
        <<buildMetric("httpCertificateExpiry", "datetime", certificate, NoTags),
          buildMetric("httpContentLength", "bytes", contentLength, NoTags)>>
        \o durationMetrics(st, Phases)
        \o <<buildMetric("httpRedirects", "quantity",
                         JsNumber(OrElse(st.redirects, 0)), NoTags),
             buildMetric("httpSecure", "boolean",
                         JsBoolean(st.tlsHandshake # Undefined), NoTags),
             buildMetric("httpStatusCode", "number",
                         IF HasResponse(res) THEN JsNumber(res.statusCode) ELSE JsNull,
                         NoTags),
             buildMetric("httpVersion", "number",
                         IF HasResponse(res) THEN parseFloat(res.httpVersion) ELSE JsNull,
                         NoTags)>>,
      success |-> successOf(res, failures)]

\* ------------------------------------------------------------------ state
VARIABLES
  query,     \* ctx.query, the parameter bag of the probe
  target0,   \* the target of the top-level invocation
  legs,      \* one record per probeHttp call of the chain, in call order; seen is
             \* the set of phases that occurred on the leg
  state,     \* the ProbeState the calls share
  now,       \* new Date().getTime()
  actual,    \* per phase, the intervals the transport really took, summed over legs
  followed,  \* the 301/302 responses followed so far
  peer       \* a second probe, started by another caller while this one runs

vars == <<query, target0, legs, state, now, actual, followed, peer>>

Chars_httpA == <<"h", "t", "t", "p", ":", "/", "/", "a", "/">>
Chars_httpsA == <<"h", "t", "t", "p", "s", ":", "/", "/", "a", "/">>
Chars_11 == <<"1", ".", "1">>
Chars_OK == <<"O", "K">>
Chars_2030 == <<"2", "0", "3", "0">>

Targets == {Chars_httpA, Chars_httpsA}

\* What a target answers: status line and headers.
Response(statusCode, location) ==
  [statusCode |-> statusCode, httpVersion |-> Chars_11, location |-> location,
   contentLength |-> JsString(<<"2">>)]

\* An answer without a Location header.
ResponseWithoutLocation(statusCode) ==
  [statusCode |-> statusCode, httpVersion |-> Chars_11, contentLength |-> JsString(<<"2">>)]

\* res.headers.location
locationOf(res) ==
  IF "location" \in DOMAIN res THEN JsString(res.location) ELSE JsUndefined

Responses ==
  {Response(200, Chars_httpA), Response(303, Chars_httpA),
   Response(301, Chars_httpsA), Response(302, Chars_httpA)}

Chunks == {Chars_OK}

NoTimes ==
  [start |-> Undefined, dnsLookupAt |-> Undefined, tcpConnectionAt |-> Undefined,
   tlsHandshakeAt |-> Undefined, firstByteAt |-> Undefined]

EmptyState ==
  [requests |-> <<>>, contentTransfer |-> Undefined, dnsLookup |-> Undefined,
   firstByte |-> Undefined, tcpConnection |-> Undefined, tlsHandshake |-> Undefined,
   redirects |-> Undefined]

NoIntervals ==
  [contentTransfer |-> 0, dnsLookup |-> 0, firstByte |-> 0, tcpConnection |-> 0,
   tlsHandshake |-> 0]

\* The value a promise is resolved with when it is resolved with the promise of
\* the next call.
NextLeg == [next |-> TRUE]

NoValue == [pending |-> TRUE]

\* No second probe was started.
NoPeer == [query |-> NoValue, legs |-> <<>>, state |-> NoValue, ref |-> 0]

\* ----------------------------------------------------------------- promise
resolveAgain(leg, value) ==
  [leg EXCEPT !.promise = IF value = NextLeg THEN "following" ELSE "fulfilled",
              !.value = value]

\* resolve(value) of the promise of one call (line 10): the first call settles
\* the promise or locks it onto the next call's promise, later calls do nothing.
resolve(leg, value) ==
  IF leg.promise # "pending" THEN leg
  ELSE [leg EXCEPT !.promise = IF value = NextLeg THEN "following" ELSE "fulfilled",
                   !.value = value]

\* What the promise of call k has settled to, NoValue while it is pending.
\* resolve(promise) with a promise that is rejected: the promise of the call is
\* rejected with it, unless it was settled before.
resolveRejected(leg) ==
  IF leg.promise # "pending" THEN leg ELSE [leg EXCEPT !.promise = "rejected"]

RECURSIVE OutcomeOf(_, _)
OutcomeOf(ls, k) ==
  IF k > Len(ls) THEN NoValue
  ELSE IF ls[k].promise = "fulfilled" THEN ls[k].value
  ELSE IF ls[k].promise = "following" THEN OutcomeOf(ls, k + 1)
  ELSE NoValue

\* ------------------------------------------------------------- probeHttp
\* Line 12.
followRedirectsOf(q) ==
  parseBooleanQueryParam(q.followRedirects, JsBoolean(TRUE)).b

\* Lines 15-21.
reqOptionsOf(q, target) ==
  LET u == urlParse(target)
  IN [method |-> IF Truthy(q.method) THEN q.method.s ELSE <<"G", "E", "T">>,
      protocol |-> u.protocol, host |-> u.host, pathname |-> u.pathname,
      rejectUnauthorized |->
        ~parseBooleanQueryParam(q.allowUnauthorized, JsBoolean(FALSE)).b]

\* url.parse(target) (line 17) throws in the executor of the promise, before the
\* request is added to the state (lines 27-28), when the target is no string.
probeHttpThrows(target) == urlParseThrows(target)

\* probeHttp(target, ctx, state) up to req.end() (lines 9-30, 62, 79, 83): the
\* world after the call, with the new leg waiting for its socket.
probeHttp(w, target, t) ==
  [w EXCEPT
     !.state.requests = Append(@, reqOptionsOf(w.query, target)),
     !.legs = Append(@,
       [target |-> target,
        followRedirects |-> followRedirectsOf(w.query),
        times |-> [NoTimes EXCEPT !.start = t],
        pc |-> "request", errored |-> FALSE, readables |-> 0, firstReadableAt |-> Undefined,
        seen |-> {}, uncaught |-> FALSE,
        res |-> NoResponse, body |-> <<>>,
        promise |-> "pending", value |-> NoValue])]

\* getHttpCertificateExpiry(req): the expiry of the peer certificate of a
\* connection that completed its TLS handshake, else null.
getHttpCertificateExpiry(leg) ==
  IF leg.times.tlsHandshakeAt # Undefined THEN JsString(Chars_2030) ELSE JsNull

\* socket.on('lookup') (lines 63-66)
onLookup(w, k, t) ==
  [w EXCEPT !.legs[k].times.dnsLookupAt = t,
            !.state = increase(@, "dnsLookup", t - w.legs[k].times.start)]

\* socket.on('connect') (lines 68-71)
onConnect(w, k, t) ==
  [w EXCEPT !.legs[k].times.tcpConnectionAt = t,
            !.state = increase(@, "tcpConnection",
                               t - OrElse(w.legs[k].times.dnsLookupAt,
                                          w.legs[k].times.start))]

\* socket.on('secureConnect') (lines 73-76)
onSecureConnect(w, k, t) ==
  [w EXCEPT !.legs[k].times.tlsHandshakeAt = t,
            !.state = increase(@, "tlsHandshake", t - w.legs[k].times.tcpConnectionAt)]

\* The handler without the test of line 35.
onReadableEveryTime(w, k, t) ==
  [w EXCEPT !.legs[k].times.firstByteAt = t,
            !.state = increase(@, "firstByte",
                               t - OrElse(w.legs[k].times.tlsHandshakeAt,
                                          w.legs[k].times.tcpConnectionAt))]

\* res.on('readable') (lines 34-41)
onReadable(w, k, t) ==
  IF w.state.firstByte = Undefined
  THEN [w EXCEPT !.legs[k].times.firstByteAt = t,
                 !.state = increase(@, "firstByte",
                                    t - OrElse(w.legs[k].times.tlsHandshakeAt,
                                               w.legs[k].times.tcpConnectionAt))]
  ELSE w

\* res.on('data') (lines 43-46)
onData(w, k, chunk) == [w EXCEPT !.legs[k].body = @ \o chunk]

shouldFollowIgnoringFlag(followRedirects, statusCode) ==
  statusCode >= 301 /\ statusCode <= 302

shouldFollowAnyRedirect(followRedirects, statusCode) ==
  followRedirects /\ statusCode >= 300 /\ statusCode <= 303

\* Line 53.
shouldFollow(followRedirects, statusCode) ==
  followRedirects /\ statusCode >= 301 /\ statusCode <= 302

\* Object.assign(res, { body }) (line 57)
resWithBody(leg) ==
  [f \in DOMAIN leg.res \cup {"body"} |-> IF f = "body" THEN leg.body ELSE leg.res[f]]

\* The handler with a ceiling on the redirects a chain follows: the response that
\* comes after two followed redirects is terminal.
onEndWithHopCeiling(w, k, t) ==
  LET leg == w.legs[k]
      w1 == IF leg.times.firstByteAt # Undefined
            THEN [w EXCEPT !.state = increase(@, "contentTransfer",
                                              t - leg.times.firstByteAt)]
            ELSE w
      res == resWithBody(leg)
  IN IF shouldFollow(leg.followRedirects, leg.res.statusCode)
        /\ OrElse(w.state.redirects, 0) < 2
     THEN LET w2 == [w1 EXCEPT !.state = increase(@, "redirects", 1)]
          IN IF probeHttpThrows(locationOf(leg.res))
             THEN [w2 EXCEPT !.legs[k] = resolveRejected(@)]
             ELSE [probeHttp(w2, leg.res.location, t) EXCEPT
                     !.legs[k] = resolve(@, NextLeg)]
     ELSE IF validateThrows(w1.query)
     THEN [w1 EXCEPT !.legs[k].uncaught = TRUE]
     ELSE [w1 EXCEPT
             !.legs[k] = resolve(@, getHttpMetrics(w1.query, getHttpCertificateExpiry(leg),
                                                   res, w1.state)),
             !.query = queryAfterValidate(@, res)]

\* res.on('end') (lines 48-59).  An exception of the validators leaves the
\* listener before resolve is called: it is not caught, and the promise of the
\* call stays as it was.  The call of line 55 is made after the counter was
\* incremented (line 54); when its executor throws, the promise it returns is
\* rejected and no request was added.
onEnd(w, k, t) ==
  LET leg == w.legs[k]
      w1 == IF leg.times.firstByteAt # Undefined
            THEN [w EXCEPT !.state = increase(@, "contentTransfer",
                                              t - leg.times.firstByteAt)]
            ELSE w
      res == resWithBody(leg)
  IN IF shouldFollow(leg.followRedirects, leg.res.statusCode)
     THEN LET w2 == [w1 EXCEPT !.state = increase(@, "redirects", 1)]
          IN IF probeHttpThrows(locationOf(leg.res))
             THEN [w2 EXCEPT !.legs[k] = resolveRejected(@)]
             ELSE [probeHttp(w2, leg.res.location, t) EXCEPT
                     !.legs[k] = resolve(@, NextLeg)]
     ELSE IF validateThrows(w1.query)
     THEN [w1 EXCEPT !.legs[k].uncaught = TRUE]
     ELSE [w1 EXCEPT
             !.legs[k] = resolve(@, getHttpMetrics(w1.query, getHttpCertificateExpiry(leg),
                                                   res, w1.state)),
             !.query = queryAfterValidate(@, res)]

onErrorIgnored(w, k) == w

\* req.on('error') (lines 79-81)
onError(w, k) ==
  [w EXCEPT
     !.legs[k] = resolve(@, getHttpMetrics(w.query, getHttpCertificateExpiry(w.legs[k]),
                                           NoResponse, w.state))]

\* ------------------------------------------------- registration of handlers
resOnEveryEvent(event) ==
  CASE event = "data" -> "onData"
    [] OTHER -> "onEnd"

\* The handler res.on(event, ...) registers for each response event
\* (lines 34, 43 and 48).
resOn(event) ==
  CASE event = "readable" -> "onReadable"
    [] event = "data" -> "onData"
    [] event = "end" -> "onEnd"

\* The response emits event on leg k at time t (chunk is the data of 'data').
emit(w, k, event, t, chunk) ==
  LET handler == resOn(event)
  IN CASE handler = "onReadable" -> onReadable(w, k, t)
       [] handler = "onData" -> onData(w, k, chunk)
       [] handler = "onEnd" -> onEnd(w, k, t)

\* ---------------------------------------------------------------- actions
\* A leg no event can reach any more: its closure (times, body, response) is
\* unreachable, only its promise remains (and, for the properties, the phases
\* that occurred on it and whether its listener threw).
Retired(leg, pc) ==
  [leg EXCEPT !.pc = pc, !.times = NoTimes, !.readables = 0,
              !.firstReadableAt = Undefined, !.res = NoResponse, !.body = <<>>]

\* 1 when the step launched a further leg on a 301 or 302 response of leg k.
FollowedBy(k, legsAfter) ==
  IF Len(legsAfter) > Len(legs) /\ legs[k].res.statusCode \in {301, 302} THEN 1 ELSE 0

World == [query |-> query, legs |-> legs, state |-> state]

Commit(w) == query' = w.query /\ legs' = w.legs /\ state' = w.state

\* The clock readings an event handler can take.
Ticks == {t \in {now, now + 1} : t <= MaxTime}

NoQuery ==
  [followRedirects |-> JsUndefined, method |-> JsUndefined,
   allowUnauthorized |-> JsUndefined, expectHttpRedirects |-> JsUndefined,
   expectHttpRedirectTo |-> JsUndefined, expectHttpResponseBodyMatch |-> JsUndefined,
   expectHttpResponseBodyMismatch |-> JsUndefined, expectHttpSecure |-> JsUndefined,
   expectHttpStatusCode |-> JsUndefined, expectHttpVersion |-> JsUndefined]

\* The parameter bags the probes are run with.
Queries ==
  {NoQuery,
   [NoQuery EXCEPT !.followRedirects = JsString(<<"f", "a", "l", "s", "e">>)],
   [NoQuery EXCEPT !.expectHttpRedirects = JsString(<<"2">>)],
   [NoQuery EXCEPT !.expectHttpRedirects = JsString(<<"0">>)],
   [NoQuery EXCEPT !.expectHttpStatusCode = JsArray(<<>>)],
   [NoQuery EXCEPT !.expectHttpStatusCode = JsArray(<<JsString(<<"4", "0", "4">>)>>)]}

Init ==
  /\ query \in Queries
  /\ target0 \in Targets
  /\ legs = <<>>
  /\ state = EmptyState
  /\ now = 1
  /\ actual = NoIntervals
  /\ followed = 0
  /\ peer = NoPeer

\* The caller invokes probeHttp(target, ctx).
Start ==
  /\ legs = <<>>
  /\ Commit(probeHttp(World, target0, now))
  /\ UNCHANGED <<peer, target0, now, actual, followed>>

\* req.on('socket') (line 62): the socket is assigned and its listeners attached.
Socket(k) ==
  /\ legs[k].pc = "request"
  /\ legs' = [legs EXCEPT ![k].pc = "socket"]
  /\ UNCHANGED <<peer, query, target0, state, now, actual, followed>>

Lookup(k) ==
  /\ legs[k].pc = "socket"
  /\ \E t \in Ticks :
       /\ now' = t
       /\ Commit(onLookup([World EXCEPT !.legs[k].pc = "lookup",
                                        !.legs[k].seen = @ \cup {"dnsLookup"}], k, t))
       /\ actual' = [actual EXCEPT !.dnsLookup = @ + (t - legs[k].times.start)]
  /\ UNCHANGED <<peer, target0, followed>>

Connect(k) ==
  /\ legs[k].pc \in {"socket", "lookup"}
  /\ \E t \in Ticks :
       /\ now' = t
       /\ Commit(onConnect([World EXCEPT !.legs[k].pc = "connect",
                                         !.legs[k].seen = @ \cup {"tcpConnection"}], k, t))
       /\ actual' = [actual EXCEPT !.tcpConnection =
                       @ + (t - (IF legs[k].pc = "lookup"
                                 THEN legs[k].times.dnsLookupAt
                                 ELSE legs[k].times.start))]
  /\ UNCHANGED <<peer, target0, followed>>

SecureConnect(k) ==
  /\ legs[k].pc = "connect"
  /\ IsHttpsTarget(legs[k].target)
  /\ \E t \in Ticks :
       /\ now' = t
       /\ Commit(onSecureConnect([World EXCEPT !.legs[k].pc = "secure",
                                               !.legs[k].seen = @ \cup {"tlsHandshake"}],
                                 k, t))
       /\ actual' = [actual EXCEPT !.tlsHandshake =
                       @ + (t - legs[k].times.tcpConnectionAt)]
  /\ UNCHANGED <<peer, target0, followed>>

\* The callback of request() (lines 30-60): the response arrives with its status
\* line and headers, and the response handlers are attached.  The last leg the
\* bound allows is not answered with a redirect that would be followed.
ResponseArrives(k) ==
  /\ legs[k].pc = IF IsHttpsTarget(legs[k].target) THEN "secure" ELSE "connect"
  /\ \E r \in Responses :
       /\ Len(legs) < MaxLegs \/ ~shouldFollow(legs[k].followRedirects, r.statusCode)
       /\ legs' = [legs EXCEPT ![k].pc = "response", ![k].res = r]
  /\ UNCHANGED <<peer, query, target0, state, now, actual, followed>>

\* 'readable' on the response of leg k; the res.read() of the handler hands the
\* chunk, when there is one, to the 'data' handler before it returns.
Readable(k) ==
  /\ legs[k].pc = "response"
  /\ legs[k].readables < MaxReadable
  /\ \E t \in Ticks, chunk \in Chunks \cup {<<>>} :
       /\ Len(legs[k].body) + Len(chunk) <= MaxBody
       /\ now' = t
       /\ LET w1 == emit([World EXCEPT
                            !.legs[k].readables = @ + 1,
                            !.legs[k].seen = @ \cup {"firstByte"},
                            !.legs[k].firstReadableAt = IF @ = Undefined THEN t ELSE @],
                         k, "readable", t, <<>>)
          IN Commit(IF chunk = <<>> THEN w1 ELSE emit(w1, k, "data", t, chunk))
       /\ actual' = IF legs[k].firstReadableAt # Undefined THEN actual
                    ELSE [actual EXCEPT !.firstByte =
                            @ + (t - (IF IsHttpsTarget(legs[k].target)
                                      THEN legs[k].times.tlsHandshakeAt
                                      ELSE legs[k].times.tcpConnectionAt))]
  /\ followed' = followed + FollowedBy(k, legs')
  /\ UNCHANGED <<peer, target0>>

End(k) ==
  /\ legs[k].pc = "response"
  /\ \E t \in Ticks :
       /\ now' = t
       /\ LET w1 == emit([World EXCEPT
                            !.legs[k].seen = IF legs[k].firstReadableAt = Undefined THEN @
                                             ELSE @ \cup {"contentTransfer"}],
                         k, "end", t, <<>>)
          IN Commit([w1 EXCEPT !.legs[k] = Retired(@, "ended")])
       /\ actual' = IF legs[k].firstReadableAt = Undefined THEN actual
                    ELSE [actual EXCEPT !.contentTransfer =
                            @ + (t - legs[k].firstReadableAt)]
  /\ followed' = followed + FollowedBy(k, legs')
  /\ UNCHANGED <<peer, target0>>

\* The request fails: before the response nothing more happens on the leg;
\* once the response has arrived its 'end' can still be delivered.
Error(k) ==
  /\ legs[k].pc \in {"socket", "lookup", "connect", "secure", "response"}
  /\ ~legs[k].errored
  /\ LET w1 == onError([World EXCEPT !.legs[k].errored = TRUE], k)
     IN Commit(IF legs[k].pc = "response" THEN w1
               ELSE [w1 EXCEPT !.legs[k] = Retired(@, "failed")])
  /\ UNCHANGED <<peer, target0, now, actual, followed>>

Next ==
  \/ Start
  \/ \E k \in 1..Len(legs) : Socket(k)
  \/ \E k \in 1..Len(legs) : Lookup(k)
  \/ \E k \in 1..Len(legs) : Connect(k)
  \/ \E k \in 1..Len(legs) : SecureConnect(k)
  \/ \E k \in 1..Len(legs) : ResponseArrives(k)
  \/ \E k \in 1..Len(legs) : Readable(k)
  \/ \E k \in 1..Len(legs) : End(k)
  \/ \E k \in 1..Len(legs) : Error(k)

Spec == Init /\ [][Next]_vars

\* ------------------------------------------- validation of a terminal leg
\* The world when leg r + 1 of a chain over plain HTTP has received the response
\* res, after r legs that connected, were answered 301 and ended, every event at
\* time t.
RECURSIVE ChainAtResponse(_, _, _, _)
ChainAtResponse(q, r, res, t) ==
  LET w0 == IF r = 0
            THEN probeHttp([query |-> q, legs |-> <<>>, state |-> EmptyState],
                           Chars_httpA, t)
            ELSE LET p == ChainAtResponse(q, r - 1, Response(301, Chars_httpA), t)
                 IN [onEnd(p, Len(p.legs), t) EXCEPT
                       !.legs[Len(p.legs)] = Retired(@, "ended")]
      k == Len(w0.legs)
      w1 == onConnect([w0 EXCEPT !.legs[k].pc = "connect",
                                 !.legs[k].seen = @ \cup {"tcpConnection"}], k, t)
  IN [w1 EXCEPT !.legs[k].pc = "response", !.legs[k].res = res]

StatusCodeParams ==
  {JsUndefined, JsString(<<>>),
   JsString(<<"4", "0", "4">>), JsString(<<"2", "0", "0">>),
   JsString(Chars_2xx), JsString(<<"3", "X", "X">>), JsString(<<"6", "x", "x">>),
   JsString(<<"a", "b", "c">>), JsString(<<"2", "x">>),
   JsArray(<<>>), JsArray(<<JsString(<<"4", "0", "4">>)>>),
   JsArray(<<JsString(Chars_2xx), JsString(<<"4", "0", "4">>)>>),
   JsArray(<<JsString(<<"2", "0", "0">>), JsString(<<"5", "x", "x">>)>>),
   JsArray(<<JsString(<<>>)>>)}

StatusCodes == {100, 200, 299, 300, 404, 500, 599}

RedirectsParams ==
  {JsUndefined, JsString(<<"0">>), JsString(<<"1">>), JsString(<<"2">>),
   JsString(Chars_yes), JsString(<<"n", "o">>)}

RedirectToParams == {JsUndefined, JsString(Chars_httpA), JsString(Chars_httpsA)}

\* A terminal leg about to be validated: either a first leg with a status code
\* expectation, or a leg after 0..MaxRedirects redirects with a redirect
\* expectation.
InitValidate ==
  \E q \in {[NoQuery EXCEPT !.expectHttpStatusCode = v] : v \in StatusCodeParams}
           \cup {[NoQuery EXCEPT !.expectHttpRedirects = v, !.expectHttpRedirectTo = u] :
                   v \in RedirectsParams, u \in RedirectToParams},
     r \in 0..MaxRedirects, statusCode \in StatusCodes :
       /\ r = 0 \/ q.expectHttpStatusCode = JsUndefined
       /\ statusCode = 200 \/ (r = 0 /\ q.expectHttpRedirects = JsUndefined
                                /\ q.expectHttpRedirectTo = JsUndefined)
       /\ LET w == ChainAtResponse(q, r, Response(statusCode, Chars_httpA), 1)
          IN query = w.query /\ legs = w.legs /\ state = w.state
       /\ target0 = Chars_httpA
       /\ now = 1
       /\ actual = NoIntervals
       /\ followed = r
       /\ peer = NoPeer

NextValidate ==
  \/ \E k \in 1..Len(legs) : Readable(k)
  \/ \E k \in 1..Len(legs) : End(k)
  \/ \E k \in 1..Len(legs) : Error(k)

SpecValidate == InitValidate /\ [][NextValidate]_vars

\* ------------------------------------- expectations on a terminal leg
Chars_httpB == <<"h", "t", "t", "p", ":", "/", "/", "b", "/">>
Chars_httpAb == <<"h", "t", "t", "p", ":", "/", "/", "a", "/", "b">>
Chars_KO == <<"K", "O">>

\* The targets of the legs of a chain: they differ in scheme, in host, in path.
ChainTargets == {Chars_httpA, Chars_httpsA, Chars_httpB, Chars_httpAb}

\* The world w0, whose last leg was just issued for target, when that leg has
\* connected, has completed its TLS handshake if the target is over https, and
\* has received the response res, every event at time t.
LegAtResponse(w0, target, res, t) ==
  LET k == Len(w0.legs)
      w1 == onConnect([w0 EXCEPT !.legs[k].pc = "connect",
                                 !.legs[k].seen = @ \cup {"tcpConnection"}], k, t)
      w2 == IF IsHttpsTarget(target)
            THEN onSecureConnect([w1 EXCEPT !.legs[k].pc = "secure",
                                            !.legs[k].seen = @ \cup {"tlsHandshake"}],
                                 k, t)
            ELSE w1
  IN [w2 EXCEPT !.legs[k].pc = "response", !.legs[k].res = res]

\* The world when the last leg of a chain has received the response res: the
\* chain visits the targets ts in order, every leg but the last is answered 301
\* with the next target as its Location and ends.  Each intermediate world is
\* bound as the element of a singleton, so that it is a value.
RECURSIVE ChainVia(_, _, _, _)
ChainVia(q, ts, res, t) ==
  LET n == Len(ts)
  IN IF n = 1
     THEN CHOOSE w \in
            {LegAtResponse(w0, ts[1], res, t) :
               w0 \in {probeHttp([query |-> q, legs |-> <<>>, state |-> EmptyState],
                                 ts[1], t)}} : TRUE
     ELSE CHOOSE w \in
            {LegAtResponse(w0, ts[n], res, t) :
               w0 \in {[onEnd(p, Len(p.legs), t) EXCEPT
                          !.legs[Len(p.legs)] = Retired(@, "ended")] :
                         p \in {ChainVia(q, SubSeq(ts, 1, n - 1),
                                         Response(301, ts[n]), t)}}} : TRUE

\* The world after the response of leg k delivered body in one chunk at time t.
WithBody(w, k, body, t) ==
  IF body = <<>> THEN w
  ELSE emit(emit([w EXCEPT !.legs[k].readables = 1,
                           !.legs[k].seen = @ \cup {"firstByte"},
                           !.legs[k].firstReadableAt = t],
                 k, "readable", t, <<>>),
            k, "data", t, body)

RedirectToExpected ==
  {JsUndefined, JsString(Chars_httpA), JsString(Chars_httpsA), JsString(Chars_httpB),
   JsString(Chars_httpAb),
   JsArray(<<JsString(Chars_httpA), JsString(Chars_httpsA)>>)}

Pattern_OK == JsString(<<"^", "O", "K", "$">>)
Pattern_K == JsString(<<"K">>)
Pattern_StartsK == JsString(<<"^", "K">>)
Pattern_EndsO == JsString(<<"O", "$">>)
Pattern_Open == JsString(<<"(">>)

BodyMatchExpected ==
  {JsUndefined, Pattern_OK, JsArray(<<Pattern_OK, Pattern_K>>),
   JsArray(<<Pattern_StartsK, Pattern_EndsO, Pattern_OK>>), Pattern_Open}

BodyMismatchExpected ==
  {JsUndefined, Pattern_K, JsArray(<<Pattern_OK, Pattern_StartsK>>),
   JsArray(<<Pattern_K, Pattern_Open>>)}

Bodies == {<<>>, Chars_OK, Chars_KO}

SecureExpected ==
  {JsUndefined, JsString(<<"t", "r", "u", "e">>), JsString(<<"f", "a", "l", "s", "e">>),
   JsString(<<"0">>), JsString(<<"Y", "e", "s">>), JsString(<<"a", "b", "c">>),
   JsArray(<<JsString(<<"f", "a", "l", "s", "e">>), JsString(<<"t", "r", "u", "e">>)>>)}

\* The content-length header of a response: absent, a length, or malformed.
ContentLengths ==
  {JsUndefined, JsString(<<"2">>), JsString(<<"1", "2">>), JsString(<<>>),
   JsString(<<"a", "b", "c">>), JsString(<<"2", "x">>)}

\* The chains of 1..MaxRedirects + 1 legs over the targets.
RECURSIVE ChainsOfLength(_)
ChainsOfLength(n) ==
  IF n = 1 THEN {<<u>> : u \in ChainTargets}
  ELSE {Append(ts, u) : ts \in ChainsOfLength(n - 1), u \in ChainTargets}

Chains == UNION {ChainsOfLength(n) : n \in 1..(MaxRedirects + 1)}

\* The parameter bags with one expectation: on the redirect target, on TLS, or
\* on the body.
ExpectQueries ==
  {[NoQuery EXCEPT !.expectHttpRedirectTo = u] : u \in RedirectToExpected}
    \cup {[NoQuery EXCEPT !.expectHttpSecure = v] : v \in SecureExpected}
    \cup {[NoQuery EXCEPT !.expectHttpResponseBodyMatch = m,
                          !.expectHttpResponseBodyMismatch = n] :
            m \in BodyMatchExpected, n \in BodyMismatchExpected}

\* The probes validated: a chain with an expected redirect target or an
\* expectation on TLS, or a single leg with a body and body patterns, or a
\* single leg with some content-length header and no expectation.
ExpectCases ==
  {<<ts, q, body, JsString(<<"2">>)>> :
     ts \in Chains,
     q \in {e \in ExpectQueries : e.expectHttpResponseBodyMatch = JsUndefined
                                   /\ e.expectHttpResponseBodyMismatch = JsUndefined},
     body \in {<<>>}}
    \cup {<<<<Chars_httpA>>, q, body, JsString(<<"2">>)>> :
            q \in ExpectQueries, body \in Bodies}
    \cup {<<<<Chars_httpA>>, NoQuery, <<>>, contentLength>> :
            contentLength \in ContentLengths}

\* A terminal leg about to end.
InitExpect ==
  \E c \in ExpectCases :
    \E w \in {ChainVia(c[2], c[1],
                       [Response(200, Chars_httpA) EXCEPT !.contentLength = c[4]], 1)} :
      \E w1 \in {WithBody(w, Len(w.legs), c[3], 1)} :
        /\ query = w1.query
        /\ legs = w1.legs
        /\ state = w1.state
        /\ target0 = c[1][1]
        /\ now = 1
        /\ actual = NoIntervals
        /\ followed = Len(c[1]) - 1
        /\ peer = NoPeer

SpecExpect == InitExpect /\ [][NextValidate]_vars

\* ------------------------------------------------- two concurrent probes
\* The default of the third parameter evaluated once, for every call.
defaultStateOnce(allocated) == 1

\* state = {} (line 9): a call without a carried state evaluates the default
\* anew and gets a ProbeState object no other call holds.  The objects are
\* numbered in the order they are allocated; allocated is their number so far.
defaultState(allocated) == allocated + 1

\* The ProbeState object the calls of the second probe hold: the variable state
\* is object 1, the state field of peer is object 2.
PeerState == IF peer.ref = 1 THEN state ELSE peer.state

PeerWorld == [query |-> peer.query, legs |-> peer.legs, state |-> PeerState]

PeerCommit(w) ==
  /\ peer' = [peer EXCEPT !.query = w.query, !.legs = w.legs,
                          !.state = IF peer.ref = 1 THEN @ ELSE w.state]
  /\ state' = IF peer.ref = 1 THEN w.state ELSE state

\* Another caller invokes probeHttp(target, ctx) while the first probe runs.
PeerStart ==
  /\ legs # <<>>
  /\ peer = NoPeer
  /\ LET ref == defaultState(1)
         w == probeHttp([query |-> query, legs |-> <<>>,
                         state |-> IF ref = 1 THEN state ELSE EmptyState],
                        target0, now)
     IN /\ peer' = [query |-> w.query, legs |-> w.legs,
                    state |-> IF ref = 1 THEN NoValue ELSE w.state, ref |-> ref]
        /\ state' = IF ref = 1 THEN w.state ELSE state
  /\ UNCHANGED <<query, target0, legs, now, actual, followed>>

\* 'connect' on the socket of leg k of the second probe.
PeerConnect(k) ==
  /\ peer.legs[k].pc = "request"
  /\ PeerCommit(onConnect([PeerWorld EXCEPT !.legs[k].pc = "connect",
                                            !.legs[k].seen = @ \cup {"tcpConnection"}],
                          k, now))
  /\ UNCHANGED <<query, target0, legs, now, actual, followed>>

\* The response of leg k of the second probe arrives: a redirect or a 200.
PeerResponseArrives(k) ==
  /\ peer.legs[k].pc = "connect"
  /\ \E r \in {Response(302, Chars_httpA), Response(200, Chars_httpA)} :
       /\ Len(peer.legs) < MaxLegs \/ ~shouldFollow(peer.legs[k].followRedirects, r.statusCode)
       /\ peer' = [peer EXCEPT !.legs[k].pc = "response", !.legs[k].res = r]
  /\ UNCHANGED <<query, target0, legs, state, now, actual, followed>>

\* 'readable' and 'data' on the response of leg k of the second probe.
PeerReadable(k) ==
  /\ peer.legs[k].pc = "response"
  /\ peer.legs[k].readables = 0
  /\ PeerCommit(emit(emit([PeerWorld EXCEPT !.legs[k].readables = 1,
                                            !.legs[k].seen = @ \cup {"firstByte"},
                                            !.legs[k].firstReadableAt = now],
                          k, "readable", now, <<>>),
                     k, "data", now, Chars_OK))
  /\ UNCHANGED <<query, target0, legs, now, actual, followed>>

\* 'end' on the response of leg k of the second probe.
PeerEnd(k) ==
  /\ peer.legs[k].pc = "response"
  /\ LET w1 == emit(PeerWorld, k, "end", now, <<>>)
     IN PeerCommit([w1 EXCEPT !.legs[k] = Retired(@, "ended")])
  /\ UNCHANGED <<query, target0, legs, now, actual, followed>>

\* Two probes of the same target, the second started while the first runs.
InitPair ==
  /\ query = NoQuery
  /\ target0 = Chars_httpA
  /\ legs = <<>>
  /\ state = EmptyState
  /\ now = MaxTime - 1
  /\ actual = NoIntervals
  /\ followed = 0
  /\ peer = NoPeer

NextPair ==
  \/ Start
  \/ \E k \in 1..Len(legs) : Socket(k)
  \/ \E k \in 1..Len(legs) : Lookup(k)
  \/ \E k \in 1..Len(legs) : Connect(k)
  \/ \E k \in 1..Len(legs) : SecureConnect(k)
  \/ \E k \in 1..Len(legs) : ResponseArrives(k)
  \/ \E k \in 1..Len(legs) : Readable(k)
  \/ \E k \in 1..Len(legs) : End(k)
  \/ PeerStart
  \/ \E k \in 1..Len(peer.legs) : PeerConnect(k)
  \/ \E k \in 1..Len(peer.legs) : PeerResponseArrives(k)
  \/ \E k \in 1..Len(peer.legs) : PeerReadable(k)
  \/ \E k \in 1..Len(peer.legs) : PeerEnd(k)

SpecPair == InitPair /\ [][NextPair]_vars

\* ------------------------------------------------ a probe run to its end
\* The parameter bags of the probes run to their end: no expectation, redirects
\* not followed, a body pattern that is no regular expression.
LiveQueries ==
  {NoQuery,
   [NoQuery EXCEPT !.followRedirects = JsString(<<"f", "a", "l", "s", "e">>)],
   [NoQuery EXCEPT !.expectHttpResponseBodyMatch = Pattern_Open]}

InitLive ==
  /\ query \in LiveQueries
  /\ target0 \in Targets
  /\ legs = <<>>
  /\ state = EmptyState
  /\ now = MaxTime
  /\ actual = NoIntervals
  /\ followed = 0
  /\ peer = NoPeer

\* The call is made, and the transport delivers to every leg its socket, its
\* connection, its TLS handshake over https, its response and the 'end' of the
\* response, unless an 'error' ends the leg before.
Delivery ==
  /\ WF_vars(Start)
  /\ WF_vars(\E k \in 1..Len(legs) : Socket(k))
  /\ WF_vars(\E k \in 1..Len(legs) : Connect(k))
  /\ WF_vars(\E k \in 1..Len(legs) : SecureConnect(k))
  /\ WF_vars(\E k \in 1..Len(legs) : ResponseArrives(k))
  /\ WF_vars(\E k \in 1..Len(legs) : End(k))

SpecLive == InitLive /\ [][Next]_vars /\ Delivery

\* ------------------------------------------ a target that always redirects
\* What the target answers on every request: a redirect to itself, or to its
\* https twin, which redirects back.
RedirectResponses == {Response(301, Chars_httpA), Response(302, Chars_httpsA)}

\* Redirects followed by default, by request, and not followed.
RedirectQueries ==
  {NoQuery,
   [NoQuery EXCEPT !.followRedirects = JsString(<<"y", "e", "s">>)],
   [NoQuery EXCEPT !.followRedirects = JsString(<<"f", "a", "l", "s", "e">>)]}

InitRedirects ==
  /\ query \in RedirectQueries
  /\ target0 \in Targets
  /\ legs = <<>>
  /\ state = EmptyState
  /\ now = MaxTime
  /\ actual = NoIntervals
  /\ followed = 0
  /\ peer = NoPeer

\* The callback of request() (lines 30-60) on a leg of the redirecting target.
\* The chain is cut after MaxHops followed redirects: the leg that comes then is
\* left without its response.
RedirectArrives(k) ==
  /\ legs[k].pc = IF IsHttpsTarget(legs[k].target) THEN "secure" ELSE "connect"
  /\ Len(legs) <= MaxHops
  /\ \E r \in RedirectResponses :
       legs' = [legs EXCEPT ![k].pc = "response", ![k].res = r]
  /\ UNCHANGED <<peer, query, target0, state, now, actual, followed>>

NextRedirects ==
  \/ Start
  \/ \E k \in 1..Len(legs) : Socket(k)
  \/ \E k \in 1..Len(legs) : Lookup(k)
  \/ \E k \in 1..Len(legs) : Connect(k)
  \/ \E k \in 1..Len(legs) : SecureConnect(k)
  \/ \E k \in 1..Len(legs) : RedirectArrives(k)
  \/ \E k \in 1..Len(legs) : Readable(k)
  \/ \E k \in 1..Len(legs) : End(k)
  \/ \E k \in 1..Len(legs) : Error(k)

SpecRedirects == InitRedirects /\ [][NextRedirects]_vars

\* ------------------------------------- answers with and without Location
LocationResponses ==
  {Response(200, Chars_httpA), Response(301, Chars_httpsA),
   ResponseWithoutLocation(200), ResponseWithoutLocation(302)}

InitLocation ==
  /\ query \in RedirectQueries
  /\ target0 \in Targets
  /\ legs = <<>>
  /\ state = EmptyState
  /\ now = MaxTime - 1
  /\ actual = NoIntervals
  /\ followed = 0
  /\ peer = NoPeer

\* The callback of request() (lines 30-60): the response arrives, with or
\* without a Location header.  The last leg the bound allows is not answered
\* with a redirect that would be followed.
AnyResponseArrives(k) ==
  /\ legs[k].pc = IF IsHttpsTarget(legs[k].target) THEN "secure" ELSE "connect"
  /\ \E r \in LocationResponses :
       /\ Len(legs) < MaxLegs \/ ~shouldFollow(legs[k].followRedirects, r.statusCode)
                             \/ probeHttpThrows(locationOf(r))
       /\ legs' = [legs EXCEPT ![k].pc = "response", ![k].res = r]
  /\ UNCHANGED <<peer, query, target0, state, now, actual, followed>>

NextLocation ==
  \/ Start
  \/ \E k \in 1..Len(legs) : Socket(k)
  \/ \E k \in 1..Len(legs) : Lookup(k)
  \/ \E k \in 1..Len(legs) : Connect(k)
  \/ \E k \in 1..Len(legs) : SecureConnect(k)
  \/ \E k \in 1..Len(legs) : AnyResponseArrives(k)
  \/ \E k \in 1..Len(legs) : Readable(k)
  \/ \E k \in 1..Len(legs) : End(k)
  \/ \E k \in 1..Len(legs) : Error(k)

SpecLocation == InitLocation /\ [][NextLocation]_vars

\* ----------------------------------------------------------------- claims
\* The outcome of the top-level invocation, NoValue while its promise is pending.
TopOutcome == OutcomeOf(legs, 1)

Settled == TopOutcome # NoValue

MetricsNamed(outcome, name) ==
  {i \in 1..Len(outcome.metrics) : outcome.metrics[i].name = name}

MetricValue(outcome, name) ==
  outcome.metrics[CHOOSE i \in MetricsNamed(outcome, name) : TRUE].value

FailuresCaused(outcome, causes) ==
  {i \in 1..Len(outcome.failures) : outcome.failures[i].cause \in causes}

\* The step settles the promise of the top-level invocation.
Settles == ~Settled /\ OutcomeOf(legs', 1) # NoValue

\* C1: every httpDuration metric of the outcome is non-negative and is, in
\* seconds, the sum over all legs of the intervals its phase really took.
C1_DurationsAreSumsOverLegs ==
  [][Settles =>
       LET outcome == OutcomeOf(legs', 1)
       IN \A i \in MetricsNamed(outcome, "httpDuration") :
            LET m == outcome.metrics[i]
            IN m.value.n >= 0 /\ m.value.n * 1000 = actual'[m.tags[1]] * m.value.d]_vars

\* The same for the content transfer phase alone.
C1_ContentTransferIsSumOverLegs ==
  [][Settles =>
       LET outcome == OutcomeOf(legs', 1)
       IN \A i \in MetricsNamed(outcome, "httpDuration") :
            LET m == outcome.metrics[i]
            IN m.tags[1] = "contentTransfer" =>
                 m.value.n * 1000 = actual'[m.tags[1]] * m.value.d]_vars

\* C2: the redirect counter always equals the number of 301/302 responses
\* followed, the httpRedirects metric of the outcome equals it when the probe
\* settles, and both are 0 when follow-redirects is disabled.
C2_RedirectsCountFollowed ==
  [][/\ OrElse(state'.redirects, 0) = followed'
     /\ ~followRedirectsOf(query') => OrElse(state'.redirects, 0) = 0
     /\ Settles =>
          /\ MetricValue(OutcomeOf(legs', 1), "httpRedirects") = JsNumber(followed')
          /\ ~followRedirectsOf(query') =>
               MetricValue(OutcomeOf(legs', 1), "httpRedirects") = JsNumber(0)]_vars

\* A probe with follow-redirects disabled settled on a 301 answer.
C2_Witness ==
  /\ Settled
  /\ ~followRedirectsOf(query)
  /\ MetricValue(TopOutcome, "httpStatusCode") = JsNumber(301)
  /\ MetricValue(TopOutcome, "httpRedirects") = JsNumber(0)

\* C3: once the top-level promise has settled, no later 'end' or 'error' event
\* of any leg replaces its outcome.
C3_OutcomeFixedByFirstTerminalEvent ==
  [][Settled => OutcomeOf(legs', 1) = TopOutcome]_vars

\* A leg delivered 'error' and then 'end' after the probe had settled.
C3_Witness ==
  Settled /\ \E k \in 1..Len(legs) : legs[k].errored /\ legs[k].pc = "ended"

\* The step delivers 'error' on some leg.
ErrorStep == \E k \in 1..Len(legs) : ~legs[k].errored /\ legs'[k].errored

\* The step delivers 'end' on leg k.
EndStep(k) == legs[k].pc = "response" /\ legs'[k].pc = "ended"

NoErrorSoFar == \A k \in 1..Len(legs) : ~legs[k].errored

\* C4: an 'error' event leaves the probe resolved with an outcome that has no
\* failures, success false, null httpStatusCode and httpVersion, and the
\* certificate expiry, content length, redirects and secure metrics; when the
\* event is what settles the probe, every phase accumulated so far is emitted.
C4_TransportFailureResolvesWithoutResponse ==
  [][ErrorStep =>
       LET outcome == OutcomeOf(legs', 1)
       IN /\ outcome # NoValue
          /\ outcome.failures = <<>>
          /\ outcome.success = FALSE
          /\ MetricValue(outcome, "httpStatusCode") = JsNull
          /\ MetricValue(outcome, "httpVersion") = JsNull
          /\ \A name \in {"httpCertificateExpiry", "httpContentLength",
                          "httpRedirects", "httpSecure", "httpStatusCode",
                          "httpVersion"} :
               Cardinality(MetricsNamed(outcome, name)) = 1
          /\ ~Settled =>
               \A p \in DOMAIN NoIntervals :
                 state'[p] # Undefined =>
                   \E i \in MetricsNamed(outcome, "httpDuration") :
                     /\ outcome.metrics[i].tags = <<p>>
                     /\ outcome.metrics[i].value = JsQuotient(state'[p], 1000)]_vars

\* A leg failed after its TCP connection and the probe resolved without a
\* response, the connection time emitted.
C4_Witness ==
  /\ Settled
  /\ \E k \in 1..Len(legs) : legs[k].errored
  /\ MetricValue(TopOutcome, "httpStatusCode") = JsNull
  /\ \E i \in MetricsNamed(TopOutcome, "httpDuration") :
       TopOutcome.metrics[i].tags = <<"tcpConnection">>

\* C5: in the outcome, success is true exactly when there is a terminal
\* response (httpStatusCode is not null) and the failure list is empty.
C5_SuccessIffResponseAndNoFailures ==
  Settled =>
    (TopOutcome.success <=>
       (MetricValue(TopOutcome, "httpStatusCode") # JsNull
          /\ Len(TopOutcome.failures) = 0))

\* A probe settled on a response that failed a validator.
C5_Witness ==
  /\ Settled
  /\ MetricValue(TopOutcome, "httpStatusCode") # JsNull
  /\ Len(TopOutcome.failures) > 0
  /\ ~TopOutcome.success

\* Follow-redirects as the parameter bag states it: absent, or a true-like string.
FollowEnabled(q) ==
  q.followRedirects.t = "undefined"
    \/ (q.followRedirects.t = "string" /\ LowerCase(q.followRedirects.s) \in TrueStrings)

\* C6: on the 'end' of a leg's response a further leg is launched, on the same
\* ProbeState, exactly when follow-redirects is enabled and the status code is
\* 301 or 302; otherwise no leg is launched and, no error event having settled
\* the probe before, the probe settles with the outcome built from that response.
C6_FollowIffEnabledAnd301Or302 ==
  [][\A k \in 1..Len(legs) :
       EndStep(k) =>
         LET follow == FollowEnabled(query) /\ legs[k].res.statusCode \in {301, 302}
             launched == Len(legs') = Len(legs) + 1
         IN /\ launched <=> follow
            /\ ~launched => Len(legs') = Len(legs)
            /\ launched =>
                 /\ legs'[Len(legs')].pc = "request"
                 /\ legs'[Len(legs')].target = legs[k].res.location
                 /\ state'.requests =
                      Append(state.requests, reqOptionsOf(query, legs[k].res.location))
            /\ (~launched /\ NoErrorSoFar) =>
                 /\ Settles
                 /\ OutcomeOf(legs', 1) =
                      getHttpMetrics(query, getHttpCertificateExpiry(legs[k]),
                                     resWithBody(legs[k]), state')]_vars

\* A chain followed a 301 or 302 and its second leg, answered 303, was terminal.
C6_Witness ==
  /\ Len(legs) = 2
  /\ followed = 1
  /\ NoErrorSoFar
  /\ Settled
  /\ MetricValue(TopOutcome, "httpStatusCode") = JsNumber(303)

\* The legs that can still receive an event.
Outstanding == {k \in 1..Len(legs) : legs[k].pc \notin {"ended", "failed"}}

\* C7: at most one leg of the chain is outstanding, and when leg k + 1 exists
\* leg k has delivered its 'end'.
C7_OneLegOutstanding ==
  /\ Cardinality(Outstanding) <= 1
  /\ \A k \in 1..(Len(legs) - 1) : legs[k].pc = "ended"

\* The second leg is receiving its response after the first has ended.
C7_Witness ==
  Len(legs) = 2 /\ legs[1].pc = "ended" /\ legs[2].pc = "response"

RedirectCauses ==
  {"invalidHttpRedirectCount", "missingHttpRedirect", "unexpectedHttpRedirect"}

\* The expected redirect count is given explicitly, as a number.
ExplicitRedirectCount(q) ==
  q.expectHttpRedirects.t \in {"string", "number"}
    /\ Number(q.expectHttpRedirects).t = "number"

\* C8: with an explicit expected count n, an outcome with a response has no
\* redirect failure when the chain followed n redirects and exactly one
\* invalidHttpRedirectCount failure (and no other redirect failure) otherwise.
C8_ExplicitRedirectCountIsExactMatch ==
  (Settled /\ MetricValue(TopOutcome, "httpStatusCode") # JsNull
     /\ ExplicitRedirectCount(query)) =>
    IF MetricValue(TopOutcome, "httpRedirects") = Number(query.expectHttpRedirects)
    THEN FailuresCaused(TopOutcome, RedirectCauses) = {}
    ELSE /\ Cardinality(FailuresCaused(TopOutcome, {"invalidHttpRedirectCount"})) = 1
         /\ Cardinality(FailuresCaused(TopOutcome, RedirectCauses)) = 1

\* The same for the expected counts n >= 1 alone.
C8_PositiveRedirectCountIsExactMatch ==
  (ExplicitRedirectCount(query) /\ Number(query.expectHttpRedirects).n >= 1) =>
    C8_ExplicitRedirectCountIsExactMatch

\* C10: the 'end' handler that runs the validators leaves the parameter bag
\* and the ProbeState as they were, and the validators run again on the same
\* response give the same failure list.
C10_ValidatorsLeaveInputsUnchanged ==
  [][\A k \in 1..Len(legs) :
       (EndStep(k) /\ Len(legs') = Len(legs)) =>
         /\ query' = query
         /\ validate(query', resWithBody(legs[k]), state')
              = validate(query, resWithBody(legs[k]), state')]_vars

\* The status codes the parameter bag supplies, as the claim reads them: the
\* parameter's strings, or 2xx and 3xx when there is none.
SuppliedStatusCodes(q) ==
  LET v == q.expectHttpStatusCode
      given == IF v.t = "array" THEN {v.a[i].s : i \in 1..Len(v.a)}
               ELSE IF v.t = "string" /\ v.s # <<>> THEN {v.s}
               ELSE {}
  IN IF given = {} THEN {Chars_2xx, Chars_3xx} ELSE given

\* c is a literal code equal to the status code.
IsLiteralFor(c, statusCode) ==
  c # <<>> /\ (\A i \in 1..Len(c) : IsDigit(c[i])) /\ DecimalValue(c) = statusCode

\* c is a class "Nxx" whose range [100 N, 100 N + 99] holds the status code.
IsClassFor(c, statusCode) ==
  /\ Len(c) = 3 /\ IsDigit(c[1]) /\ c[2] \in {"x", "X"} /\ c[3] \in {"x", "X"}
  /\ statusCode \in (100 * DigitValue(c[1]))..(100 * DigitValue(c[1]) + 99)

\* C9: an outcome with a response holds exactly one invalidHttpStatusCode
\* failure when the status code equals no supplied literal and lies in no
\* supplied class (2xx and 3xx when none is supplied), and none otherwise; with
\* the failure, success is false.
C9_StatusCodeFailureIffNoMatch ==
  (Settled /\ MetricValue(TopOutcome, "httpStatusCode") # JsNull) =>
    LET statusCode == MetricValue(TopOutcome, "httpStatusCode").n
        matched == \E c \in SuppliedStatusCodes(query) :
                     IsLiteralFor(c, statusCode) \/ IsClassFor(c, statusCode)
        n == Cardinality(FailuresCaused(TopOutcome, {"invalidHttpStatusCode"}))
    IN /\ n = IF matched THEN 0 ELSE 1
       /\ ~matched => ~TopOutcome.success

\* Expected ["404"], answered 200: one invalidHttpStatusCode failure, no success.
C9_Witness ==
  /\ Settled
  /\ query.expectHttpStatusCode = JsArray(<<JsString(<<"4", "0", "4">>)>>)
  /\ MetricValue(TopOutcome, "httpStatusCode") = JsNumber(200)
  /\ Cardinality(FailuresCaused(TopOutcome, {"invalidHttpStatusCode"})) = 1
  /\ Len(TopOutcome.failures) = 1
  /\ ~TopOutcome.success

\* A chain 301 -> 301 -> 200 validated against expectHttpRedirects=2: no
\* redirect failure, httpRedirects 2.
C8_TwoRedirectsExpected ==
  /\ Settled
  /\ query.expectHttpRedirects = JsString(<<"2">>)
  /\ MetricValue(TopOutcome, "httpRedirects") = JsNumber(2)
  /\ FailuresCaused(TopOutcome, RedirectCauses) = {}
\* The 'end' of leg k is delivered and no further leg is launched: the leg is
\* the terminal one.
TerminalEndStep(k) == EndStep(k) /\ Len(legs') = Len(legs)

\* C11: when the 'end' of the terminal leg finds a malformed expectation (an
\* expected redirect target url.parse rejects, a body pattern that is no regular
\* expression), the probe is settled once the step is over.
C11_MalformedExpectationSettlesProbe ==
  [][\A k \in 1..Len(legs) :
       (TerminalEndStep(k) /\ validateThrows(query)) =>
         OutcomeOf(legs', 1) # NoValue]_vars

\* The terminal leg of a probe with a malformed body pattern has ended, its
\* listener threw, and the promise of the probe is pending.
C11_PendingAfterMalformedExpectation ==
  /\ \E k \in 1..Len(legs) : legs[k].pc = "ended" /\ legs[k].uncaught
  /\ query.expectHttpResponseBodyMatch = Pattern_Open
  /\ NoErrorSoFar
  /\ ~Settled

\* The probe settled on a response.
SettledOnResponse ==
  Settled /\ MetricValue(TopOutcome, "httpStatusCode") # JsNull

\* The URL the last leg of the chain was issued for.
LastTarget == legs[Len(legs)].target

\* C12: with an expected redirect target, an outcome with a response has no
\* invalidHttpRedirectLocation failure when the expected URL is, in scheme, host
\* and path, the URL of the last request of the chain, and exactly one when it
\* differs in any of them, whatever the earlier requests of the chain were.
C12_RedirectTargetIsLastRequest ==
  (SettledOnResponse /\ query.expectHttpRedirectTo.t = "string") =>
    Cardinality(FailuresCaused(TopOutcome, {"invalidHttpRedirectLocation"}))
      = IF query.expectHttpRedirectTo.s = LastTarget THEN 0 ELSE 1

\* A chain that started at the expected URL and was redirected away from it:
\* one invalidHttpRedirectLocation failure.
C12_Witness ==
  /\ SettledOnResponse
  /\ query.expectHttpRedirectTo = JsString(Chars_httpAb)
  /\ target0 = Chars_httpAb
  /\ Len(legs) = 2
  /\ LastTarget = Chars_httpA
  /\ Cardinality(FailuresCaused(TopOutcome, {"invalidHttpRedirectLocation"})) = 1

\* C13: without an explicit expected count, an outcome with a response holds a
\* missingHttpRedirect failure exactly when an expected redirect target is given
\* and the chain followed no redirect; it never holds another failure of the
\* redirect-count validator, and none at all when neither is given.
C13_RedirectTargetImpliesOneRedirect ==
  (SettledOnResponse /\ query.expectHttpRedirects.t = "undefined") =>
    /\ Cardinality(FailuresCaused(TopOutcome, {"missingHttpRedirect"}))
         = IF query.expectHttpRedirectTo.t = "string" /\ followed = 0 THEN 1 ELSE 0
    /\ FailuresCaused(TopOutcome, RedirectCauses)
         = FailuresCaused(TopOutcome, {"missingHttpRedirect"})

\* The expected target was reached without a redirect: missingHttpRedirect is
\* the only failure.
C13_Witness ==
  /\ SettledOnResponse
  /\ query.expectHttpRedirectTo = JsString(Chars_httpB)
  /\ target0 = Chars_httpB
  /\ followed = 0
  /\ Len(TopOutcome.failures) = 1
  /\ Cardinality(FailuresCaused(TopOutcome, {"missingHttpRedirect"})) = 1

\* Neither expectation is given and two redirects were followed: no failure.
C13_NoExpectationNoFailure ==
  /\ SettledOnResponse
  /\ query = NoQuery
  /\ followed = 2
  /\ TopOutcome.failures = <<>>

\* The regular expression p matches body, for the patterns of the expectations:
\* ^OK$ is the whole body, K occurs in it, ^K begins it, O$ ends it.
PatternMatches(p, body) ==
  CASE p = Pattern_OK -> body = Chars_OK
    [] p = Pattern_K -> \E i \in 1..Len(body) : body[i] = "K"
    [] p = Pattern_StartsK -> body # <<>> /\ body[1] = "K"
    [] p = Pattern_EndsO -> body # <<>> /\ body[Len(body)] = "O"

\* C14: the outcome built at the 'end' of a terminal response holds one
\* httpResponseBodyMismatch failure for each must-match pattern that does not
\* match the body and one unexpectedHttpResponseBodyMatch failure for each
\* must-not-match pattern that matches it, each pattern judged on its own.
C14_OneBodyFailurePerUnmetPattern ==
  [][\A k \in 1..Len(legs) :
       (TerminalEndStep(k) /\ NoErrorSoFar /\ ~validateThrows(query)) =>
         LET outcome == OutcomeOf(legs', 1)
             body == legs[k].body
             must == toArray(query.expectHttpResponseBodyMatch)
             mustNot == toArray(query.expectHttpResponseBodyMismatch)
         IN /\ outcome # NoValue
            /\ Cardinality(FailuresCaused(outcome, {"httpResponseBodyMismatch"}))
                 = Cardinality({i \in 1..Len(must) : ~PatternMatches(must[i], body)})
            /\ Cardinality(FailuresCaused(outcome, {"unexpectedHttpResponseBodyMatch"}))
                 = Cardinality({i \in 1..Len(mustNot) : PatternMatches(mustNot[i], body)})
            /\ \A i \in FailuresCaused(outcome, {"httpResponseBodyMismatch"}) :
                 \E j \in 1..Len(must) :
                   outcome.failures[i].expected = must[j] /\ ~PatternMatches(must[j], body)
            /\ \A i \in FailuresCaused(outcome, {"unexpectedHttpResponseBodyMatch"}) :
                 \E j \in 1..Len(mustNot) :
                   outcome.failures[i].expected = mustNot[j]
                     /\ PatternMatches(mustNot[j], body)]_vars

\* Of the must-match patterns ^K, O$ and ^OK$ two are unmet by the body of the
\* response and the pattern that must not match matches it: three failures.
C14_Witness ==
  /\ SettledOnResponse
  /\ query.expectHttpResponseBodyMatch
       = JsArray(<<Pattern_StartsK, Pattern_EndsO, Pattern_OK>>)
  /\ query.expectHttpResponseBodyMismatch = Pattern_K
  /\ Cardinality(FailuresCaused(TopOutcome, {"httpResponseBodyMismatch"})) = 2
  /\ Cardinality(FailuresCaused(TopOutcome, {"unexpectedHttpResponseBodyMatch"})) = 1

\* Pattern ^OK$ alone against a body that is not OK: one failure,
\* httpResponseBodyMismatch.
C14_SinglePatternMismatch ==
  /\ SettledOnResponse
  /\ query.expectHttpResponseBodyMatch = Pattern_OK
  /\ query.expectHttpResponseBodyMismatch = JsUndefined
  /\ Len(TopOutcome.failures) = 1
  /\ TopOutcome.failures[1].cause = "httpResponseBodyMismatch"

\* A TLS handshake was completed on some leg of the chain.
TlsHandshakeOccurred == \E k \in 1..Len(legs) : "tlsHandshake" \in legs[k].seen

\* What the parameter bag expects of TLS: the last value of expectHttpSecure,
\* "secure" when it is true-like, "insecure" when it is false-like, else "none".
SecureExpectation(q) ==
  LET values == toArray(q.expectHttpSecure)
      v == IF values = <<>> THEN JsUndefined ELSE values[Len(values)]
  IN IF v.t = "string" /\ LowerCase(v.s) \in TrueStrings THEN "secure"
     ELSE IF v.t = "string" /\ LowerCase(v.s) \in FalseStrings THEN "insecure"
     ELSE "none"

SecurityCauses == {"insecureHttp", "unexpectedlySecureHttp"}

OccurredAfterStep == UNION {legs'[k].seen : k \in 1..Len(legs')}

\* C16: the outcome the probe settles with, whatever it is, lists each of
\* httpCertificateExpiry, httpContentLength, httpRedirects, httpSecure,
\* httpStatusCode and httpVersion once, one httpDuration for each phase that
\* occurred on some leg of the chain, none for a phase that never occurred, and
\* nothing else.
C16_OneMetricPerNameAndOccurredPhase ==
  [][Settles =>
       LET outcome == OutcomeOf(legs', 1)
           durations == MetricsNamed(outcome, "httpDuration")
           names == {"httpCertificateExpiry", "httpContentLength", "httpRedirects",
                     "httpSecure", "httpStatusCode", "httpVersion"}
       IN /\ \A name \in names : Cardinality(MetricsNamed(outcome, name)) = 1
          /\ \A i \in 1..Len(outcome.metrics) :
               outcome.metrics[i].name \in names \cup {"httpDuration"}
          /\ \A p \in OccurredAfterStep :
               Cardinality({i \in durations : outcome.metrics[i].tags = <<p>>}) = 1
          /\ \A i \in durations :
               \E p \in OccurredAfterStep : outcome.metrics[i].tags = <<p>>]_vars

\* A probe over plain HTTP settled on a response that was read: no DNS lookup
\* and no TLS handshake occurred, and the outcome lists nine metrics, three of
\* them durations.
C16_Witness ==
  /\ SettledOnResponse
  /\ NoErrorSoFar
  /\ UNION {legs[k].seen : k \in 1..Len(legs)}
       = {"tcpConnection", "firstByte", "contentTransfer"}
  /\ Len(TopOutcome.metrics) = 9
  /\ Cardinality(MetricsNamed(TopOutcome, "httpDuration")) = 3

\* The content-length header is a length: a non-empty run of decimal digits.
IsLength(v) ==
  v.t = "string" /\ v.s # <<>> /\ \A i \in 1..Len(v.s) : IsDigit(v.s[i])

\* The metrics of an outcome but httpContentLength.
OtherMetrics(outcome) ==
  [i \in 1..(Len(outcome.metrics) - 1) |->
     outcome.metrics[IF i < 2 THEN i ELSE i + 1]]

\* The step, when it is the 'end' of a terminal response, builds an outcome
\* whose httpContentLength is the length the header states, null when the header
\* is missing or is no length, and whose other metrics, failures and success
\* flag are those of the same response with a well-formed header.
ContentLengthDegradesToNull ==
     \A k \in 1..Len(legs) :
       (TerminalEndStep(k) /\ NoErrorSoFar /\ ~validateThrows(query)) =>
         LET outcome == OutcomeOf(legs', 1)
             header == legs[k].res.contentLength
             wellFormed ==
               getHttpMetrics(query, getHttpCertificateExpiry(legs[k]),
                              [resWithBody(legs[k]) EXCEPT
                                 !.contentLength = JsString(<<"2">>)],
                              state')
         IN /\ outcome # NoValue
            /\ MetricValue(outcome, "httpContentLength")
                 = IF IsLength(header) THEN JsNumber(DecimalValue(header.s)) ELSE JsNull
            /\ OtherMetrics(outcome) = OtherMetrics(wellFormed)
            /\ outcome.failures = wellFormed.failures
            /\ outcome.success = wellFormed.success

\* C17: the outcome built at the 'end' of a terminal response whose
\* content-length header is missing or is no length has a null httpContentLength
\* (the length itself otherwise), and its other metrics, failures and success
\* flag are those of the same response with a well-formed header.
C17_MalformedContentLengthIsNull == [][ContentLengthDegradesToNull]_vars

\* The same for the headers that are missing, empty or a length.
C17_MissingContentLengthIsNull ==
  [][(\A k \in 1..Len(legs) :
        legs[k].res # NoResponse =>
          (IsLength(legs[k].res.contentLength)
             \/ legs[k].res.contentLength \in {JsUndefined, JsString(<<>>)}))
       => ContentLengthDegradesToNull]_vars

\* A response with content-length "abc" settled the probe with a success whose
\* httpContentLength is NaN.
C17_NaNContentLength ==
  /\ SettledOnResponse
  /\ TopOutcome.success
  /\ MetricValue(TopOutcome, "httpContentLength") = JsNaN

\* C19: the 'end' of every leg whose response delivered a 'readable' event, the
\* first leg or a later one, adds the time from the leg's first 'readable' to
\* this 'end' to the contentTransfer accumulator.
C19_ContentTransferRecordedOnEveryLeg ==
  [][\A k \in 1..Len(legs) :
       (EndStep(k) /\ legs[k].firstReadableAt # Undefined) =>
         state'.contentTransfer
           = OrElse(state.contentTransfer, 0) + (now' - legs[k].firstReadableAt)]_vars

\* The same for the first leg of a chain alone.
C19_ContentTransferRecordedOnFirstLeg ==
  [][\A k \in 1..Len(legs) :
       (k = 1 /\ EndStep(k) /\ legs[k].firstReadableAt # Undefined) =>
         state'.contentTransfer
           = OrElse(state.contentTransfer, 0) + (now' - legs[k].firstReadableAt)]_vars

\* Both legs of a chain were read to their end, the second for 1 ms or more,
\* and the accumulator holds the transfer of the first leg alone.
C19_SecondLegNotRecorded ==
  /\ Len(legs) = 2
  /\ legs[2].pc = "ended"
  /\ "contentTransfer" \in legs[1].seen
  /\ "contentTransfer" \in legs[2].seen
  /\ NoErrorSoFar
  /\ state.contentTransfer = 0
  /\ actual.contentTransfer > 0

\* The step delivers 'readable' on leg k.
ReadableStep(k) == legs'[k].readables = legs[k].readables + 1

\* A 'readable' event was delivered on some leg of the chain.
FirstByteOccurred == \E k \in 1..Len(legs) : "firstByte" \in legs[k].seen

C18_ProbesOwnTheirState ==
  [][/\ peer' # NoPeer => peer'.ref # 1
     /\ peer'.legs # peer.legs => state' = state
     /\ legs' # legs => PeerState' = PeerState]_vars

\* Both probes are on their second leg, each state holding its own two requests
\* and its own redirect.
C18_Witness ==
  /\ Len(legs) = 2
  /\ Len(peer.legs) = 2
  /\ legs[2].pc = "response"
  /\ peer.legs[2].pc = "response"
  /\ state.redirects = 1
  /\ Len(state.requests) = 2
  /\ PeerState.redirects = 1
  /\ Len(PeerState.requests) = 2

\* The first request of the chain was issued.
Started == legs # <<>>

\* C21: a probe that was started eventually settles, with a response or with a
\* transport failure, when every leg is delivered its 'end' or an 'error' and
\* the redirect chain is finite.
C21_StartedProbeSettles == Started ~> Settled

\* The same for the probes whose expectations are well-formed.
C21_WellFormedProbeSettles == (Started /\ ~validateThrows(query)) ~> Settled

\* No leg is issued by a step that delivers 'error': a failed leg is not retried.
C21_FailedLegIsNotRetried ==
  [][ErrorStep => (Len(legs') = Len(legs) /\ state'.requests = state.requests)]_vars

\* The terminal leg has ended, no event is left to deliver, and the probe has
\* not settled.
C21_EndedAndPending ==
  /\ Started
  /\ \A k \in 1..Len(legs) : legs[k].pc = "ended"
  /\ NoErrorSoFar
  /\ ~Settled

\* The legs whose 301/302 response was delivered to its 'end' (under
\* SpecRedirects every response is one).
Redirected(ls) == {j \in 1..Len(ls) : ls[j].pc = "ended"}

\* C22: against a target that always answers 301 or 302, with redirects
\* followed, every 'end' issues the request for the location of the response,
\* however many redirects were followed and whether or not the location was
\* requested before; after N such responses N + 1 requests were issued and the
\* redirect counter is N, and the probe is settled only by a transport error.
C22_EveryRedirectIsFollowed ==
  [][\A k \in 1..Len(legs) :
       (EndStep(k) /\ legs[k].followRedirects) =>
         /\ Len(legs') = Len(legs) + 1
         /\ legs'[Len(legs')].target = legs[k].res.location
         /\ state'.redirects = Cardinality(Redirected(legs'))
         /\ Len(state'.requests) = Cardinality(Redirected(legs')) + 1
         /\ (\A j \in 1..Len(legs') : ~legs'[j].errored) =>
              OutcomeOf(legs', 1) = NoValue]_vars

\* MaxHops redirects were followed, the last of them to a URL the chain had
\* requested before, and the probe is pending.
C22_FollowedThroughACycle ==
  /\ Len(legs) = MaxHops + 1
  /\ Cardinality(Redirected(legs)) = MaxHops
  /\ state.redirects = MaxHops
  /\ Len(state.requests) = MaxHops + 1
  /\ \E j \in 1..MaxHops : state.requests[j] = state.requests[MaxHops + 1]
  /\ NoErrorSoFar
  /\ ~Settled

\* C23: once the first request of a chain was issued, the request list is one
\* longer than the redirect counter (0 while no redirect was followed).
C23_RequestsAreRedirectsPlusOne ==
  Started => Len(state.requests) = OrElse(state.redirects, 0) + 1

\* The 'end' of a 301/302 response without a Location header was delivered:
\* the counter was incremented and no request was added.
C23_CountedWithoutRequest ==
  /\ Len(legs) = 1
  /\ legs[1].pc = "ended"
  /\ legs[1].promise = "rejected"
  /\ state.redirects = 1
  /\ Len(state.requests) = 1

\* No step removes, replaces or reorders a request of the list: the list before
\* the step is a prefix of the list after it.
C23_RequestsAppendOnly ==
  [][/\ Len(state'.requests) >= Len(state.requests)
     /\ SubSeq(state'.requests, 1, Len(state.requests)) = state.requests]_vars

\* When the 'end' of a terminal leg settles the probe, the last request of the
\* list is the one of that leg.
C23_LastRequestIsTerminalLeg ==
  [][\A k \in 1..Len(legs) :
       (TerminalEndStep(k) /\ Settles) =>
         /\ k = Len(legs)
         /\ state'.requests[Len(state'.requests)] = reqOptionsOf(query, legs[k].target)]_vars

\* Two requests are on the list after one followed redirect, the first of them
\* as it was issued.
C23_TwoRequests ==
  /\ Len(legs) = 2
  /\ Len(state.requests) = 2
  /\ state.redirects = 1
  /\ state.requests[1] = reqOptionsOf(query, target0)
====
